---- MODULE Spec2Model ----
(***************************************************************************)
(* The BSD disklabel driver of libfdisk (libfdisk/src/bsd.c) as a state    *)
(* machine: the in-memory label, the boot block buffer, the device and the *)
(* label operations (probe, create, add, delete, get, set type, link,      *)
(* edit, write, write bootstrap).                                          *)
(*                                                                         *)
(* The model covers the two non-Alpha builds that differ in where the      *)
(* label sits in the boot block: "i386" (BSD_LABELSECTOR 1,                *)
(* BSD_LABELOFFSET 0) and "ia64" (BSD_LABELSECTOR 0, BSD_LABELOFFSET 64).  *)
(*                                                                         *)
(* TLC's integers are 32 bits wide and signed, so a uint32_t of the        *)
(* program is a pair <<hi, lo>> of 16 bit words (value hi * 65536 + lo)    *)
(* and the program's 32 bit arithmetic is done on such pairs, wrapping     *)
(* modulo 2^32 as the C code does.  uint16_t and uint8_t are integers.     *)
(***************************************************************************)
EXTENDS Integers, Sequences, FiniteSets, TLC

----------------------------------------------------------------------------
(* 16 and 32 bit unsigned arithmetic                                       *)

B16 == 65536

RECURSIVE Xor16(_, _)
\* a ^ b on unsigned short
Xor16(a, b) ==
    IF a = 0 THEN b
    ELSE IF b = 0 THEN a
    ELSE (((a % 2) + (b % 2)) % 2) + 2 * Xor16(a \div 2, b \div 2)

\* the uint32_t with the value n, 0 <= n < 2^31
U32(n) == << n \div B16, n % B16 >>

Zero32 == << 0, 0 >>
One32 == << 0, 1 >>
Max32 == << 65535, 65535 >>

IsZero32(a) == a[1] = 0 /\ a[2] = 0

Lt32(a, b) == a[1] < b[1] \/ (a[1] = b[1] /\ a[2] < b[2])
Le32(a, b) == a = b \/ Lt32(a, b)

\* a + b on unsigned int
Add32(a, b) ==
    LET s == a[2] + b[2]
    IN  << (a[1] + b[1] + (s \div B16)) % B16, s % B16 >>

\* a - b on unsigned int
Sub32(a, b) ==
    LET l == a[2] - b[2]
        borrow == IF l < 0 THEN 1 ELSE 0
    IN  << (a[1] - b[1] - borrow + 2 * B16) % B16, (l + B16) % B16 >>

\* the full product of two 16 bit words, as a 32 bit value
Mul16(x, y) ==
    LET p0 == (x % 256) * y
        p1 == (x \div 256) * y
        low == p0 + ((p1 % 256) * 256)
    IN  << ((p1 \div 256) + (low \div B16)) % B16, low % B16 >>

\* a * b on unsigned int
Mul32(a, b) ==
    LET ll == Mul16(a[2], b[2])
        c1 == Mul16(a[1], b[2])[2]
        c2 == Mul16(a[2], b[1])[2]
    IN  << (ll[1] + c1 + c2) % B16, ll[2] >>

\* a / b and a % b for b below 2^23: long division on the four bytes of a
DivSmall(a, b) ==
    LET n == b[1] * B16 + b[2]
        t3 == a[1] \div 256
        t2 == ((t3 % n) * 256) + (a[1] % 256)
        t1 == ((t2 % n) * 256) + (a[2] \div 256)
        t0 == ((t1 % n) * 256) + (a[2] % 256)
        r == t0 % n
    IN  << << ((t3 \div n) * 256) + (t2 \div n), ((t1 \div n) * 256) + (t0 \div n) >>,
           << r \div B16, r % B16 >> >>

\* a shifted left by one bit, with bit put in at the right
Shl32(a, bit) == << ((a[1] * 2) + (a[2] \div 32768)) % B16, ((a[2] * 2) + bit) % B16 >>

\* bit i (0 .. 8) of a
Bit32(a, i) == (a[2] \div (2 ^ i)) % 2

RECURSIVE DivStep(_, _, _, _, _)
\* restoring division, from bit i of a down: q the quotient and r the remainder
\* so far, r < b
DivStep(a, b, i, q, r) ==
    IF i < 0 THEN << q, r >>
    ELSE LET carry == r[1] \div 32768
             r2 == Shl32(r, Bit32(a, i))
         IN  IF carry = 1 \/ Le32(b, r2)
             THEN DivStep(a, b, i - 1, Shl32(q, 1), Sub32(r2, b))
             ELSE DivStep(a, b, i - 1, Shl32(q, 0), r2)

\* a / b and a % b for b of 2^23 and more: the quotient is below 2^9, and
\* a >> 9 is below b
DivLarge(a, b) ==
    DivStep(a, b, 8, Zero32, << a[1] \div 512, ((a[1] % 512) * 128) + (a[2] \div 512) >>)

\* a / b and a % b on unsigned int, b # 0
Div32(a, b) == IF b[1] < 128 THEN DivSmall(a, b)[1] ELSE DivLarge(a, b)[1]
Mod32(a, b) == IF b[1] < 128 THEN DivSmall(a, b)[2] ELSE DivLarge(a, b)[2]

----------------------------------------------------------------------------
(* Constants of the on-disk format (pt-bsd.h, used throughout bsd.c)       *)

BSD_MAXPARTITIONS == 16
BSD_BBSIZE == 8192
BSD_SBSIZE == 8192
DEFAULT_SECTOR_SIZE == 512
\* 0x82564557
BSD_DISKMAGIC == << 33366, 17751 >>
BSD_DTYPE_SCSI == 4
BSD_DTYPE_ST506 == 6
BSD_D_DOSPART == 32
BSD_FS_UNUSED == 0
BSD_FS_BSDFFS == 7
BSD_FS_MSDOS == 8
BSD_FS_OTHER == 10
BSD_FS_HPFS == 11
UINT8_MAX == 255
EINVAL == 22
\* sizeof(struct bsd_disklabel): a packed header of 148 bytes and 16 slots of 16
LabelBytes == 148 + BSD_MAXPARTITIONS * 16

Platforms == { "i386", "ia64" }
BSD_LABELSECTOR(platform) == IF platform = "i386" THEN 1 ELSE 0
BSD_LABELOFFSET(platform) == IF platform = "i386" THEN 0 ELSE 64
\* where the label starts in the boot block buffer
LabelStart(platform) ==
    BSD_LABELSECTOR(platform) * DEFAULT_SECTOR_SIZE + BSD_LABELOFFSET(platform)

Slots == 0 .. (BSD_MAXPARTITIONS - 1)

----------------------------------------------------------------------------
(* struct bsd_partition and struct bsd_disklabel                           *)

ZeroPart ==
    [ p_size |-> Zero32, p_offset |-> Zero32, p_fsize |-> Zero32,
      p_fstype |-> 0, p_frag |-> 0, p_cpg |-> 0 ]

\* The label after calloc() or memset(0).  The fields the driver never reads or
\* writes one by one (d_typename, d_packname, the spares, d_acylinders,
\* d_drivedata, d_spare) are zero in every label of the model and stand behind
\* d_subtype, the one such field that is kept.
ZeroLabel ==
    [ d_magic |-> Zero32, d_type |-> 0, d_subtype |-> 0,
      d_secsize |-> Zero32, d_nsectors |-> Zero32, d_ntracks |-> Zero32,
      d_ncylinders |-> Zero32, d_secpercyl |-> Zero32, d_secperunit |-> Zero32,
      d_rpm |-> 0, d_interleave |-> 0, d_trackskew |-> 0, d_cylskew |-> 0,
      d_headswitch |-> Zero32, d_trkseek |-> Zero32, d_flags |-> Zero32,
      d_magic2 |-> Zero32, d_checksum |-> 0, d_npartitions |-> 0,
      d_bbsize |-> Zero32, d_sbsize |-> Zero32,
      d_partitions |-> [ j \in Slots |-> ZeroPart ] ]

X32(a) == Xor16(a[1], a[2])

\* the xor of the eight 16 bit words of a slot (p_fstype and p_frag share one)
PartXor(p) ==
    Xor16(X32(p.p_size),
    Xor16(X32(p.p_offset),
    Xor16(X32(p.p_fsize),
    Xor16(p.p_fstype + 256 * p.p_frag, p.p_cpg))))

\* the xor of the 16 bit words of the header, d_magic up to d_sbsize
HeaderXor(lp) ==
    Xor16(X32(lp.d_magic),
    Xor16(lp.d_type,
    Xor16(lp.d_subtype,
    Xor16(X32(lp.d_secsize),
    Xor16(X32(lp.d_nsectors),
    Xor16(X32(lp.d_ntracks),
    Xor16(X32(lp.d_ncylinders),
    Xor16(X32(lp.d_secpercyl),
    Xor16(X32(lp.d_secperunit),
    Xor16(lp.d_rpm,
    Xor16(lp.d_interleave,
    Xor16(lp.d_trackskew,
    Xor16(lp.d_cylskew,
    Xor16(X32(lp.d_headswitch),
    Xor16(X32(lp.d_trkseek),
    Xor16(X32(lp.d_flags),
    Xor16(X32(lp.d_magic2),
    Xor16(lp.d_checksum,
    Xor16(lp.d_npartitions,
    Xor16(X32(lp.d_bbsize), X32(lp.d_sbsize)))))))))))))))))))))

RECURSIVE SlotsXor(_, _)
\* the xor of the words of slots 0 .. n - 1
SlotsXor(parts, n) ==
    IF n <= 0 THEN 0 ELSE Xor16(PartXor(parts[n - 1]), SlotsXor(parts, n - 1))

\* bsd_dkcksum: the xor of the 16 bit words from the start of the label up to
\* &d_partitions[d_npartitions].  With d_npartitions over BSD_MAXPARTITIONS the
\* range runs past the label into the memory that follows it, `after`: the xor
\* of the words of that memory the range takes in.
bsd_dkcksum(lp, after) ==
    LET n == lp.d_npartitions
        inside == IF n > BSD_MAXPARTITIONS THEN BSD_MAXPARTITIONS ELSE n
    IN  Xor16(Xor16(HeaderXor(lp), SlotsXor(lp.d_partitions, inside)),
              IF n > BSD_MAXPARTITIONS THEN after ELSE 0)

----------------------------------------------------------------------------
(* The context: the parent MBR, the device, the bootstrap files            *)

\* 0 <= n < 2^31 from a uint32_t below 2^31 (device sector numbers of the model)
ToInt(a) == a[1] * B16 + a[2]

DosPart(sys, start, size) == [ sys_ind |-> sys, start |-> start, size |-> size ]
ClearedDosPart == DosPart(0, Zero32, Zero32)

\* no parent: the label sits on the whole device
NoParent == << >>
\* an HPFS partition and a FreeBSD partition
MbrPlain ==
    << DosPart(7, U32(100), U32(200)), DosPart(165, U32(2048), U32(20480)),
       ClearedDosPart, ClearedDosPart >>
\* a hidden FreeBSD partition (0xa5 ^ 0x10) that ends at sector 2^32 - 1
MbrLarge ==
    << DosPart(181, U32(2048), Sub32(Zero32, U32(2048))), DosPart(6, U32(63), U32(1985)),
       ClearedDosPart, ClearedDosPart >>
\* no BSD partition at all
MbrNoBsd ==
    << DosPart(7, U32(100), U32(200)), DosPart(6, U32(2048), U32(20480)),
       ClearedDosPart, ClearedDosPart >>
\* a NetBSD partition with the invalid start sector 0, before a FreeBSD one
MbrZeroStart ==
    << DosPart(169, Zero32, U32(2048)), DosPart(165, U32(2048), U32(20480)),
       ClearedDosPart, ClearedDosPart >>
Parents == { NoParent, MbrPlain, MbrLarge, MbrNoBsd, MbrZeroStart }

\* cxt->sector_size of the devices of the model
SectorSizes == { 512, 4096 }
\* the devices of the model: a parent and the sector size of its device
Devices ==
    { << NoParent, 512 >>, << MbrPlain, 4096 >>, << MbrLarge, 512 >>,
      << MbrNoBsd, 512 >>, << MbrZeroStart, 512 >> }

HasParent(cxt) == cxt.parent # NoParent

\* the indices past the table whose d_partitions[j] the model follows: in
\* struct fdisk_bsd_label bsdbuffer comes right after the label, and
\* d_partitions[16] and d_partitions[17] are its bytes 0 .. 15 and 16 .. 31
OverSlots == BSD_MAXPARTITIONS .. (BSD_MAXPARTITIONS + 1)

\* bytes 0 .. 31 of a block, read as d_partitions[16] and d_partitions[17],
\* when they are zero but for the 16 bit word w at byte 0
BlockHead(w) ==
    [ j \in OverSlots |->
        IF j = BSD_MAXPARTITIONS THEN [ ZeroPart EXCEPT !.p_size = << 0, w >> ]
        ELSE ZeroPart ]

\* what BSD_BBSIZE bytes of the device or of the buffer hold: `pre` is bytes
\* 0 .. 31, read as the two slots that d_partitions[16] and d_partitions[17]
\* are when the block is bsdbuffer (the other bytes before the label are
\* zero), `lab` the bytes of the label region read as a struct bsd_disklabel,
\* `post` the 16 bit word that follows the label region (the bytes after it
\* are zero but for it).  Image takes the 16 bit word at byte 0 for `pre`.
Image(pre, lab, post) == [ pre |-> BlockHead(pre), lab |-> lab, post |-> post ]
ZeroImage == Image(0, ZeroLabel, 0)

Part(size, offset, fsize, fstype, frag, cpg) ==
    [ p_size |-> size, p_offset |-> offset, p_fsize |-> fsize,
      p_fstype |-> fstype, p_frag |-> frag, p_cpg |-> cpg ]

\* a label as a disk of 1024 cylinders, 16 heads and 63 sectors carries it
DiskLabelBase ==
    [ ZeroLabel EXCEPT
        !.d_magic = BSD_DISKMAGIC, !.d_magic2 = BSD_DISKMAGIC,
        !.d_type = BSD_DTYPE_ST506, !.d_flags = U32(BSD_D_DOSPART),
        !.d_secsize = U32(512), !.d_nsectors = U32(63), !.d_ntracks = U32(16),
        !.d_ncylinders = U32(1024), !.d_secpercyl = U32(1008),
        !.d_secperunit = U32(1032192), !.d_rpm = 3600, !.d_interleave = 1,
        !.d_bbsize = U32(BSD_BBSIZE), !.d_sbsize = U32(BSD_SBSIZE) ]

\* five slots, only slot 4 (e) in use; slot 1 (b) is empty and keeps the type
\* it was given
DiskLabelPlain ==
    [ DiskLabelBase EXCEPT
        !.d_npartitions = 5, !.d_checksum = 4660,
        !.d_partitions[1] = Part(Zero32, Zero32, Zero32, BSD_FS_BSDFFS, 0, 0),
        !.d_partitions[4] = Part(U32(4032), U32(1008), U32(1024), BSD_FS_BSDFFS, 8, 16) ]

\* more slots than BSD_MAXPARTITIONS announced, sectors of 64 bytes
DiskLabelMany ==
    [ DiskLabelBase EXCEPT
        !.d_npartitions = 18, !.d_type = BSD_DTYPE_SCSI, !.d_secsize = U32(64),
        !.d_partitions[2] = Part(U32(1032192), Zero32, Zero32, BSD_FS_UNUSED, 0, 0),
        !.d_partitions[15] = Part(U32(2016), U32(1008), U32(512), BSD_FS_BSDFFS, 8, 16) ]

\* no sectors per cylinder, sectors of 1024 bytes, data behind the last slot
DiskLabelOdd ==
    [ DiskLabelBase EXCEPT
        !.d_npartitions = 2, !.d_secsize = U32(1024), !.d_secpercyl = Zero32,
        !.d_partitions[1] = Part(U32(2016), U32(1008), Zero32, BSD_FS_MSDOS, 0, 0),
        !.d_partitions[5] = Part(U32(300), U32(7), U32(2048), BSD_FS_BSDFFS, 4, 9) ]

\* what the device holds where the label is looked for
DiskImages ==
    { ZeroImage,
      Image(60220, DiskLabelPlain, 0),
      Image(4660, DiskLabelMany, 22136),
      Image(0, DiskLabelOdd, 43690) }

\* what the devices of the model hold: any of the images on a whole device, no
\* label or the plain one at the start of the small DOS partition, the plain
\* one at the start of the large one; the plain one at byte 0 when the parent
\* has no BSD partition with a start sector
ImagesOf(parent) ==
    IF parent = NoParent THEN DiskImages
    ELSE IF parent \in { MbrLarge, MbrNoBsd, MbrZeroStart }
    THEN { Image(60220, DiskLabelPlain, 0) }
    ELSE { ZeroImage, Image(60220, DiskLabelPlain, 0) }

\* the bootstrap files of BSD_LINUX_BOOTDIR, by name: <name>boot is read to
\* bsdbuffer[0 .. d_secsize) and boot<name> to bsdbuffer[d_secsize .. d_bbsize).
\* `pre`, `lab` and `post` are what the files put at the places of an Image
\* (whichever of the two files reaches the place).  bootsd is not zero where
\* the last slots of the label lie.
BootNames == { "sd", "wd", "ov" }
\* bytes that are no label: the magic numbers are not there
BootCode(w) == [ ZeroLabel EXCEPT !.d_subtype = w ]
\* bytes that are zero but in the place of slot 13
BootTail(w) == [ ZeroLabel EXCEPT !.d_partitions[13].p_cpg = w ]
BootFiles(name) ==
    CASE name = "sd" -> [ pre |-> BlockHead(250), first_lab |-> ZeroLabel, second_lab |-> BootTail(88), post |-> 251 ]
      [] name = "wd" -> [ pre |-> BlockHead(252), first_lab |-> BootCode(77), second_lab |-> ZeroLabel, post |-> 253 ]
      [] name = "ov" -> [ pre |-> BlockHead(254), first_lab |-> ZeroLabel, second_lab |-> BootCode(99), post |-> 255 ]

\* the geometries the context can carry: heads, sectors, cylinders
Geom(h, s, c) == [ heads |-> h, sectors |-> s, cylinders |-> c ]
Geometries ==
    { Geom(U32(16), U32(63), U32(1024)),
      Geom(Zero32, Zero32, Zero32),
      Geom(U32(255), U32(63), U32(267350)) }

----------------------------------------------------------------------------
(* State                                                                   *)

VARIABLES
    cxt,          \* the context: platform, sector_size, parent, dev_path
    d,            \* struct bsd_disklabel bsd of the fdisk_bsd_label
    bsdbuffer,    \* char bsdbuffer[BSD_BBSIZE] of the fdisk_bsd_label
    dos_part,     \* the parent's partition the label is nested in: 1 .. 4, 0 for NULL
    dev,          \* the device: the BSD_BBSIZE bytes at each byte offset in use
    changed,      \* cxt->label->changed
    nparts_cur,   \* cxt->label->nparts_cur
    nparts_max,   \* cxt->label->nparts_max
    have,         \* the last probe found the label, or create made it
    crashed,      \* the process died: a division by zero, a free of a pointer never set
    last,         \* the last operation: what it was given and what it returned
    nops          \* operations done so far

vars ==
    << cxt, d, bsdbuffer, dos_part, dev, changed, nparts_cur, nparts_max,
       have, crashed, last, nops >>

\* how many operations a run of the model does
MaxOps == 3

\* the values a failing prompt (a cancelled dialog) returns
AskErrors == { -125 }
\* the value a failing lseek, read or write returns (-errno, EIO)
IoErrors == { -5 }
\* errno ? -errno : -1 when read_all has returned -1: -errno of the read that
\* failed; at the end of the device read_all sets no errno, and the value is
\* -errno of the call that failed last (here EIO, ENOENT or ENOTTY), -1 when
\* errno is 0
ReadErrors == IoErrors \cup { -1, -2, -25 }

NoPa == [ used |-> FALSE, start |-> Zero32, end |-> Zero32,
          start_post |-> "", end_post |-> "" ]

\* the record kept of an operation: op its name, rc what it returned, n the
\* partition number given, cyl whether the context used cylinders, off and
\* len the device transfer it did (off -1: none), pa what get_part filled in,
\* ask the two numbers the prompts returned
Last(op, rc, n, cyl, off, len, pa, ask) ==
    [ op |-> op, rc |-> rc, n |-> n, cyl |-> cyl, off |-> off, len |-> len,
      pa |-> pa, ask |-> ask ]
NoAsk == << Zero32, Zero32 >>

----------------------------------------------------------------------------
(* Parent MBR                                                              *)

HIDDEN_MASK == 16
MBR_FREEBSD_PARTITION == 165
MBR_OPENBSD_PARTITION == 166
MBR_NETBSD_PARTITION == 169

is_bsd_partition_type(type) ==
    \/ type = MBR_FREEBSD_PARTITION
    \/ type = Xor16(MBR_FREEBSD_PARTITION, HIDDEN_MASK)
    \/ type = MBR_NETBSD_PARTITION
    \/ type = Xor16(MBR_NETBSD_PARTITION, HIDDEN_MASK)
    \/ type = MBR_OPENBSD_PARTITION
    \/ type = Xor16(MBR_OPENBSD_PARTITION, HIDDEN_MASK)

RECURSIVE AssignScanAnyStart(_, _)
\* the loop without the test of the start sector: the first entry of a BSD
\* type is taken, whatever its start
AssignScanAnyStart(parent, i) ==
    IF i > 4 THEN [ rc |-> 1, dos_part |-> 0 ]
    ELSE IF ~is_bsd_partition_type(parent[i].sys_ind)
    THEN AssignScanAnyStart(parent, i + 1)
    ELSE [ rc |-> 0, dos_part |-> i ]

RECURSIVE AssignScan(_, _)
\* the loop of bsd_assign_dos_partition from entry i on: what it returns and
\* what it leaves in l->dos_part
AssignScan(parent, i) ==
    IF i > 4 THEN [ rc |-> 1, dos_part |-> 0 ]
    ELSE IF ~is_bsd_partition_type(parent[i].sys_ind) THEN AssignScan(parent, i + 1)
    ELSE IF IsZero32(parent[i].start) THEN [ rc |-> -1, dos_part |-> i ]
    ELSE [ rc |-> 0, dos_part |-> i ]

\* cxt->dev_path == NULL
NoPath == ""

\* fdisk_partname(cxt->parent->dev_path, i) for the parent device "/dev/sda"
fdisk_partname(i) ==
    CASE i = 1 -> "/dev/sda1"
      [] i = 2 -> "/dev/sda2"
      [] i = 3 -> "/dev/sda3"
      [] OTHER -> "/dev/sda4"

\* bsd_assign_dos_partition: what it returns, l->dos_part and cxt->dev_path as
\* it leaves them
bsd_assign_dos_partition(c) ==
    LET a == AssignScan(c.parent, 1)
    IN  [ rc |-> a.rc, dos_part |-> a.dos_part,
          dev_path |-> IF a.rc = 0 THEN fdisk_partname(a.dos_part)
                       ELSE IF a.rc = 1 THEN NoPath
                       ELSE c.dev_path ]

dos_partition_get_start(c, dp) == c.parent[dp].start
dos_partition_get_size(c, dp) == c.parent[dp].size

\* the byte offset bsd_readlabel and bsd_write_disklabel seek to
LabelDevOffset(c, dp) ==
    IF dp # 0 THEN ToInt(dos_partition_get_start(c, dp)) * c.sector_size ELSE 0

\* the byte offset fdisk_bsd_write_bootstrap seeks to
BootstrapDevOffset(c, dp) ==
    IF dp # 0 THEN ToInt(dos_partition_get_start(c, dp)) * DEFAULT_SECTOR_SIZE ELSE 0

\* the byte offsets of the device the model keeps the contents of
DevOffsets(c) ==
    { 0 } \cup
    UNION { { ToInt(c.parent[i].start) * c.sector_size,
              ToInt(c.parent[i].start) * DEFAULT_SECTOR_SIZE } :
            i \in { j \in 1 .. Len(c.parent) : is_bsd_partition_type(c.parent[j].sys_ind) } }

\* the device paths of the contexts of the model when they are made, and the
\* paths that start with "/dev/sd"
DevPaths == { "/dev/sda" }
SdPaths == { "/dev/sda", "/dev/sda1", "/dev/sda2", "/dev/sda3", "/dev/sda4" }

\* the builds the devices of the model are opened by: a whole device and the
\* parents no label is found in by both, the parent with the small partition
\* by "i386", the one with the large partition by "ia64"
Builds(parent) ==
    IF parent = MbrPlain THEN { "i386" }
    ELSE IF parent = MbrLarge THEN { "ia64" }
    ELSE Platforms

Contexts ==
    { c \in [ platform : Platforms, sector_size : SectorSizes, parent : Parents,
              dev_path : DevPaths ] :
        /\ << c.parent, c.sector_size >> \in Devices
        /\ c.platform \in Builds(c.parent) }

Init ==
    /\ cxt \in Contexts
    /\ \E img \in ImagesOf(cxt.parent) :
         LET dp == IF HasParent(cxt) THEN bsd_assign_dos_partition(cxt).dos_part ELSE 0
         IN  dev = [ o \in DevOffsets(cxt) |->
                       IF o = LabelDevOffset(cxt, dp) THEN img ELSE ZeroImage ]
    /\ d = ZeroLabel
    /\ bsdbuffer = ZeroImage
    /\ dos_part = 0
    /\ changed = FALSE
    /\ nparts_cur = 0
    /\ nparts_max = 0
    /\ have = FALSE
    /\ crashed = FALSE
    /\ last = Last("new", 0, 0, FALSE, -1, 0, NoPa, NoAsk)
    /\ nops = 0

\* an operation may start
Ready == ~crashed /\ nops < MaxOps

----------------------------------------------------------------------------
(* probe and read                                                          *)

\* the loop of bsd_readlabel over the slots from d_npartitions on
ZeroTrailing(lp) ==
    [ lp EXCEPT !.d_partitions =
        [ t \in Slots |->
            IF t >= lp.d_npartitions
            THEN [ lp.d_partitions[t] EXCEPT
                     !.p_size = Zero32, !.p_offset = Zero32, !.p_fstype = BSD_FS_UNUSED ]
            ELSE lp.d_partitions[t] ] ]

\* read_all(cxt->dev_fd, l->bsdbuffer, sizeof(l->bsdbuffer)) on the block img
\* of the device: what it returns (-1, or the count of the bytes the device
\* delivered) and the buffer it leaves.  It clears the buffer before it reads.  io is what
\* the device does: "ok"; "partial" (it delivers the bytes up to the end of
\* the label region, then it is at its end); "short" (it is at its end at
\* once and read_all returns -1); "short0" (the same, with a read_all that
\* returns the count 0); "readfail" (read fails).
read_all(platform, img, io) ==
    CASE io = "ok" -> [ ret |-> BSD_BBSIZE, buf |-> img ]
      [] io = "partial" -> [ ret |-> LabelStart(platform) + LabelBytes,
                             buf |-> [ img EXCEPT !.post = 0 ] ]
      [] io = "short0" -> [ ret |-> 0, buf |-> ZeroImage ]
      [] OTHER -> [ ret |-> -1, buf |-> ZeroImage ]

\* bsd_readlabel.  io is what the device does: "seekfail", or an outcome of
\* read_all; err is errno ? -errno : -1 with the errno there is when read_all
\* has returned -1.
bsd_readlabel(c, dp, buf, lp, io, err) ==
    LET off == LabelDevOffset(c, dp)
        r == read_all(c.platform, dev[off], io)
        buf1 == r.buf
        d1 == buf1.lab
    IN  IF io = "seekfail"
        THEN [ rc |-> -1, d |-> lp, buf |-> buf, off |-> -1, len |-> 0, found |-> FALSE ]
        ELSE IF r.ret < 0
        THEN [ rc |-> err, d |-> lp, buf |-> buf1,
               off |-> off, len |-> BSD_BBSIZE, found |-> FALSE ]
        ELSE IF d1.d_magic # BSD_DISKMAGIC \/ d1.d_magic2 # BSD_DISKMAGIC
        THEN [ rc |-> -1, d |-> d1, buf |-> buf1, off |-> off, len |-> BSD_BBSIZE,
               found |-> FALSE ]
        ELSE [ rc |-> 0, d |-> ZeroTrailing(d1), buf |-> buf1, off |-> off,
               len |-> BSD_BBSIZE, found |-> TRUE ]

ReadOutcomes == { "ok", "partial", "short", "short0", "seekfail", "readfail" }

\* bsd_probe_label
Probe(io, err) ==
    /\ Ready
    /\ LET a == IF HasParent(cxt) THEN bsd_assign_dos_partition(cxt)
                ELSE [ rc |-> 0, dos_part |-> dos_part, dev_path |-> cxt.dev_path ]
           r == bsd_readlabel(cxt, a.dos_part, bsdbuffer, d, io, err)
       IN  IF a.rc # 0
           THEN /\ dos_part' = a.dos_part
                /\ cxt' = [ cxt EXCEPT !.dev_path = a.dev_path ]
                /\ have' = FALSE
                /\ last' = Last("probe", 0, 0, FALSE, -1, 0, NoPa, NoAsk)
                /\ UNCHANGED << d, bsdbuffer, nparts_cur, nparts_max >>
           ELSE /\ dos_part' = a.dos_part
                /\ cxt' = [ cxt EXCEPT !.dev_path = a.dev_path ]
                /\ d' = r.d
                /\ bsdbuffer' = r.buf
                /\ nparts_cur' = IF r.found THEN r.d.d_npartitions ELSE nparts_cur
                /\ nparts_max' = IF r.found THEN BSD_MAXPARTITIONS ELSE nparts_max
                /\ have' = r.found
                /\ last' = Last("probe", IF r.rc = 0 THEN 1 ELSE 0, 0, FALSE,
                                r.off, r.len, NoPa, NoAsk)
    /\ nops' = nops + 1
    /\ UNCHANGED << dev, changed, crashed >>

----------------------------------------------------------------------------
(* create                                                                  *)

\* a label initialised as on a whole device whatever the nesting
InitLabelWholeDevice(c, dp, geom) ==
    LET spc0 == Mul32(geom.sectors, geom.heads)
        spc == IF IsZero32(spc0) THEN One32 ELSE spc0
        spu == Mul32(spc, geom.cylinders)
    IN  [ ZeroLabel EXCEPT
            !.d_magic = BSD_DISKMAGIC,
            !.d_type = IF c.dev_path \in SdPaths
                       THEN BSD_DTYPE_SCSI ELSE BSD_DTYPE_ST506,
            !.d_flags = U32(BSD_D_DOSPART),
            !.d_secsize = U32(DEFAULT_SECTOR_SIZE),
            !.d_nsectors = geom.sectors,
            !.d_ntracks = geom.heads,
            !.d_ncylinders = geom.cylinders,
            !.d_secpercyl = spc,
            !.d_secperunit = spu,
            !.d_rpm = 3600,
            !.d_interleave = 1,
            !.d_magic2 = BSD_DISKMAGIC,
            !.d_bbsize = U32(BSD_BBSIZE),
            !.d_sbsize = U32(BSD_SBSIZE),
            !.d_npartitions = 3,
            !.d_partitions[2] =
                [ ZeroPart EXCEPT !.p_offset = Zero32, !.p_size = spu,
                                  !.p_fstype = BSD_FS_UNUSED ] ]

\* bsd_initlabel
bsd_initlabel(c, dp, geom) ==
    LET spc0 == Mul32(geom.sectors, geom.heads)
        spc == IF IsZero32(spc0) THEN One32 ELSE spc0
        spu == Mul32(spc, geom.cylinders)
        hdr == [ ZeroLabel EXCEPT
                   !.d_magic = BSD_DISKMAGIC,
                   !.d_type = IF c.dev_path \in SdPaths
                              THEN BSD_DTYPE_SCSI ELSE BSD_DTYPE_ST506,
                   !.d_flags = U32(BSD_D_DOSPART),
                   !.d_secsize = U32(DEFAULT_SECTOR_SIZE),
                   !.d_nsectors = geom.sectors,
                   !.d_ntracks = geom.heads,
                   !.d_ncylinders = geom.cylinders,
                   !.d_secpercyl = spc,
                   !.d_secperunit = spu,
                   !.d_rpm = 3600,
                   !.d_interleave = 1,
                   !.d_magic2 = BSD_DISKMAGIC,
                   !.d_bbsize = U32(BSD_BBSIZE),
                   !.d_sbsize = U32(BSD_SBSIZE) ]
    IN  IF dp # 0
        THEN [ hdr EXCEPT
                 !.d_npartitions = 4,
                 !.d_partitions[2] =
                     [ ZeroPart EXCEPT !.p_offset = dos_partition_get_start(c, dp),
                                       !.p_size = dos_partition_get_size(c, dp),
                                       !.p_fstype = BSD_FS_UNUSED ],
                 !.d_partitions[3] =
                     [ ZeroPart EXCEPT !.p_offset = Zero32, !.p_size = spu,
                                       !.p_fstype = BSD_FS_UNUSED ] ]
        ELSE [ hdr EXCEPT
                 !.d_npartitions = 3,
                 !.d_partitions[2] =
                     [ ZeroPart EXCEPT !.p_offset = Zero32, !.p_size = spu,
                                       !.p_fstype = BSD_FS_UNUSED ] ]

\* bsd_create_disklabel.  answer is what fdisk_ask_yesno gives: "yes", "no",
\* or "cancel" (it fails with err); geom is the geometry of the context.
Create(answer, err, geom) ==
    /\ Ready
    /\ LET a == IF HasParent(cxt) THEN bsd_assign_dos_partition(cxt)
                ELSE [ rc |-> 0, dos_part |-> dos_part, dev_path |-> cxt.dev_path ]
           rc == IF a.rc = 1 THEN -EINVAL ELSE a.rc
       IN  IF answer = "cancel"
           THEN /\ last' = Last("create", err, 0, FALSE, -1, 0, NoPa, NoAsk)
                /\ UNCHANGED << cxt, d, dos_part, nparts_cur, nparts_max, have >>
           ELSE IF answer = "no"
           THEN /\ last' = Last("create", 1, 0, FALSE, -1, 0, NoPa, NoAsk)
                /\ UNCHANGED << cxt, d, dos_part, nparts_cur, nparts_max, have >>
           ELSE IF rc # 0
           THEN /\ dos_part' = a.dos_part
                /\ cxt' = [ cxt EXCEPT !.dev_path = a.dev_path ]
                /\ last' = Last("create", rc, 0, FALSE, -1, 0, NoPa, NoAsk)
                /\ UNCHANGED << d, nparts_cur, nparts_max, have >>
           ELSE /\ dos_part' = a.dos_part
                /\ cxt' = [ cxt EXCEPT !.dev_path = a.dev_path ]
                /\ d' = bsd_initlabel([ cxt EXCEPT !.dev_path = a.dev_path ], a.dos_part, geom)
                /\ nparts_cur' = d'.d_npartitions
                /\ nparts_max' = BSD_MAXPARTITIONS
                /\ have' = TRUE
                /\ last' = Last("create", 0, 0, FALSE, -1, 0, NoPa, NoAsk)
    /\ nops' = nops + 1
    /\ UNCHANGED << bsdbuffer, dev, changed, crashed >>

----------------------------------------------------------------------------
(* add, delete, get, set type, link                                        *)

\* bsd_cround(c, n), d_secpercyl # 0 when the context uses cylinders
bsd_cround(cyl, lp, n) ==
    IF cyl THEN Add32(Div32(n, lp.d_secpercyl), One32) ELSE n

\* what a prompt returns when the user takes the lowest or the highest value
\* it offers
AskPick(pick, low, high) == IF pick = "low" THEN low ELSE high

AskAnswers == { "cancel", "low", "high" }

\* bsd_add_part up to the second prompt: begin, end as the code has them
\* before the first prompt
AddWindow(c, dp, lp) ==
    IF dp # 0
    THEN LET begin == dos_partition_get_start(c, dp)
         IN  << begin, Sub32(Add32(begin, dos_partition_get_size(c, dp)), One32) >>
    ELSE << Zero32, Sub32(lp.d_secperunit, One32) >>

\* begin after the first prompt returned v1
AddBegin(cyl, lp, v1) ==
    IF cyl THEN Mul32(Sub32(v1, One32), lp.d_secpercyl) ELSE v1

\* end after the second prompt returned v2
AddEnd(cyl, lp, v2) ==
    IF cyl THEN Sub32(Mul32(v2, lp.d_secpercyl), One32) ELSE v2

\* the slot and the count bsd_add_part stores
AddStore(lp, i, begin, end) ==
    [ lp EXCEPT
        !.d_partitions[i] =
            [ @ EXCEPT !.p_size = Add32(Sub32(end, begin), One32),
                       !.p_offset = begin,
                       !.p_fstype = BSD_FS_UNUSED ],
        !.d_npartitions = IF i >= @ THEN i + 1 ELSE @ ]

\* bsd_add_part.  cyl: the context uses cylinders; a1, a2: what the two
\* prompts do; err: what a cancelled prompt returns.
AddPart(i, cyl, a1, a2, err) ==
    /\ Ready
    /\ have
    /\ LET w == AddWindow(cxt, dos_part, d)
       IN  IF i >= BSD_MAXPARTITIONS
           THEN /\ last' = Last("add", -EINVAL, i, cyl, -1, 0, NoPa, NoAsk)
                /\ UNCHANGED << d, nparts_cur, changed, crashed >>
           ELSE IF cyl /\ IsZero32(d.d_secpercyl)
           THEN /\ crashed' = TRUE
                /\ last' = Last("add", 0, i, cyl, -1, 0, NoPa, NoAsk)
                /\ UNCHANGED << d, nparts_cur, changed >>
           ELSE LET low1 == bsd_cround(cyl, d, w[1])
                    high1 == bsd_cround(cyl, d, w[2])
                    v1 == AskPick(a1, low1, high1)
                    begin == AddBegin(cyl, d, v1)
                    low2 == bsd_cround(cyl, d, begin)
                    high2 == bsd_cround(cyl, d, w[2])
                    v2 == AskPick(a2, low2, high2)
                    end == AddEnd(cyl, d, v2)
                IN  IF a1 = "cancel" \/ Lt32(high1, low1)
                    THEN /\ last' = Last("add", err, i, cyl, -1, 0, NoPa, NoAsk)
                         /\ UNCHANGED << d, nparts_cur, changed, crashed >>
                    ELSE IF a2 = "cancel" \/ Lt32(high2, low2)
                    THEN /\ last' = Last("add", err, i, cyl, -1, 0, NoPa, << v1, Zero32 >>)
                         /\ UNCHANGED << d, nparts_cur, changed, crashed >>
                    ELSE /\ d' = AddStore(d, i, begin, end)
                         /\ nparts_cur' = d'.d_npartitions
                         /\ changed' = TRUE
                         /\ last' = Last("add", 0, i, cyl, -1, 0, NoPa, << v1, v2 >>)
                         /\ UNCHANGED crashed
    /\ nops' = nops + 1
    /\ UNCHANGED << cxt, bsdbuffer, dos_part, dev, nparts_max, have >>

\* d->d_partitions[j] for j from 0 on: a slot of the table, or with j in
\* OverSlots the bytes of bsdbuffer (buf), which follows the label in struct
\* fdisk_bsd_label
PartAt(lp, buf, j) ==
    IF j < BSD_MAXPARTITIONS THEN lp.d_partitions[j] ELSE buf.pre[j]

\* p_size of d_partitions[j] as the loop of bsd_delete_part reads it: slot -1
\* is the 16 bytes before the table, d_magic2 up to d_sbsize, whose first four
\* are d_magic2
SlotSize(lp, buf, j) ==
    IF j = -1 THEN lp.d_magic2 ELSE PartAt(lp, buf, j).p_size

RECURSIVE ShrinkCount(_, _, _)
\* while (!d->d_partitions[d->d_npartitions - 1].p_size) d->d_npartitions--;
\* on the uint16_t d_npartitions
ShrinkCount(lp, buf, n) ==
    IF IsZero32(SlotSize(lp, buf, n - 1))
    THEN ShrinkCount(lp, buf, (n - 1 + B16) % B16)
    ELSE n

\* the label after the three stores of bsd_delete_part to d_partitions[partnum]
bsd_clear_part(lp, partnum) ==
    IF partnum < BSD_MAXPARTITIONS
    THEN [ lp EXCEPT !.d_partitions[partnum] =
             [ @ EXCEPT !.p_size = Zero32, !.p_offset = Zero32,
                        !.p_fstype = BSD_FS_UNUSED ] ]
    ELSE lp

\* bsdbuffer as the three stores of bsd_delete_part leave it: with partnum
\* in OverSlots, d_partitions[partnum] is 16 bytes of bsdbuffer
DeleteBuffer(buf, partnum) ==
    IF partnum >= BSD_MAXPARTITIONS
    THEN [ buf EXCEPT !.pre[partnum] =
             [ @ EXCEPT !.p_size = Zero32, !.p_offset = Zero32,
                        !.p_fstype = BSD_FS_UNUSED ] ]
    ELSE buf

RECURSIVE ShrinkReads(_, _, _)
\* the indices j of the d_partitions[j].p_size the loop of bsd_delete_part
\* reads, from d_npartitions = n on
ShrinkReads(lp, buf, n) ==
    IF IsZero32(SlotSize(lp, buf, n - 1))
    THEN { n - 1 } \cup ShrinkReads(lp, buf, (n - 1 + B16) % B16)
    ELSE { n - 1 }

\* the indices of d_partitions bsd_delete_part stores to or reads
DeleteTouched(lp, buf, partnum) ==
    { partnum } \cup
    IF lp.d_npartitions = partnum + 1
    THEN ShrinkReads(bsd_clear_part(lp, partnum), DeleteBuffer(buf, partnum),
                     lp.d_npartitions)
    ELSE { }

\* the label bsd_delete_part leaves; buf is bsdbuffer after its stores
bsd_delete_part(lp, buf, partnum) ==
    LET cleared == bsd_clear_part(lp, partnum)
    IN  IF cleared.d_npartitions = partnum + 1
        THEN [ cleared EXCEPT !.d_npartitions =
                 ShrinkCount(cleared, buf, cleared.d_npartitions) ]
        ELSE cleared

\* bsd_delete_part
DeletePart(partnum) ==
    /\ Ready
    /\ have
    /\ bsdbuffer' = DeleteBuffer(bsdbuffer, partnum)
    /\ d' = bsd_delete_part(d, bsdbuffer', partnum)
    /\ nparts_cur' = d'.d_npartitions
    /\ changed' = TRUE
    /\ last' = Last("delete", 0, partnum, FALSE, -1, 0, NoPa, NoAsk)
    /\ nops' = nops + 1
    /\ UNCHANGED << cxt, dos_part, dev, nparts_max, have, crashed >>

\* what bsd_get_partition fills in of pa for slot p
GetView(cyl, lp, p) ==
    IF IsZero32(p.p_size) THEN NoPa
    ELSE IF cyl /\ ~IsZero32(lp.d_secpercyl)
    THEN LET spc == lp.d_secpercyl
             stop == Add32(p.p_offset, p.p_size)
         IN  [ used |-> TRUE,
               start |-> Add32(Div32(p.p_offset, spc), One32),
               start_post |-> IF ~IsZero32(Mod32(p.p_offset, spc)) THEN "*" ELSE " ",
               end |-> Div32(Sub32(Add32(stop, spc), One32), spc),
               end_post |-> IF ~IsZero32(Mod32(stop, spc)) THEN "*" ELSE " " ]
    ELSE [ used |-> TRUE,
           start |-> p.p_offset,
           start_post |-> "",
           end |-> Sub32(Add32(p.p_offset, p.p_size), One32),
           end_post |-> "" ]

\* bsd_get_partition
GetPartition(n, cyl) ==
    /\ Ready
    /\ have
    /\ IF n >= d.d_npartitions
       THEN last' = Last("get", -EINVAL, n, cyl, -1, 0, NoPa, NoAsk)
       ELSE last' = Last("get", 0, n, cyl, -1, 0,
                         GetView(cyl, d, PartAt(d, bsdbuffer, n)), NoAsk)
    /\ nops' = nops + 1
    /\ UNCHANGED << cxt, d, bsdbuffer, dos_part, dev, changed, nparts_cur,
                    nparts_max, have, crashed >>

\* bsd_set_parttype; type is t->type.  With partnum in OverSlots (below a
\* d_npartitions over BSD_MAXPARTITIONS) p points into bsdbuffer.
SetPartType(partnum, type) ==
    /\ Ready
    /\ have
    /\ IF partnum >= d.d_npartitions \/ type > UINT8_MAX
       THEN /\ last' = Last("set_type", -EINVAL, partnum, FALSE, -1, 0, NoPa, NoAsk)
            /\ UNCHANGED << d, bsdbuffer, changed >>
       ELSE IF type = PartAt(d, bsdbuffer, partnum).p_fstype
       THEN /\ last' = Last("set_type", 0, partnum, FALSE, -1, 0, NoPa, NoAsk)
            /\ UNCHANGED << d, bsdbuffer, changed >>
       ELSE /\ IF partnum < BSD_MAXPARTITIONS
               THEN /\ d' = [ d EXCEPT !.d_partitions[partnum].p_fstype = type ]
                    /\ UNCHANGED bsdbuffer
               ELSE /\ bsdbuffer' = [ bsdbuffer EXCEPT !.pre[partnum].p_fstype = type ]
                    /\ UNCHANGED d
            /\ changed' = TRUE
            /\ last' = Last("set_type", 0, partnum, FALSE, -1, 0, NoPa, NoAsk)
    /\ nops' = nops + 1
    /\ UNCHANGED << cxt, dos_part, dev, nparts_cur, nparts_max, have, crashed >>

\* a translation that knows the FAT types only
TranslateFatOnly(linux_type) ==
    IF linux_type \in { 1, 4, 6, 225, 227, 242 } THEN BSD_FS_MSDOS
    ELSE BSD_FS_OTHER

bsd_translate_fstype(linux_type) ==
    IF linux_type \in { 1, 4, 6, 225, 227, 242 } THEN BSD_FS_MSDOS
    ELSE IF linux_type = 7 THEN BSD_FS_HPFS
    ELSE BSD_FS_OTHER

\* fdisk_bsd_link_partition.  k, i: the partition numbers the two
\* fdisk_ask_partnum return; a: "ok", or which of the two is cancelled.
LinkPartition(k, i, a, err) ==
    /\ Ready
    /\ have
    /\ IF ~HasParent(cxt)
       THEN /\ last' = Last("link", -EINVAL, i, FALSE, -1, 0, NoPa, NoAsk)
            /\ UNCHANGED << d, nparts_cur, changed >>
       ELSE IF a # "ok"
       THEN /\ last' = Last("link", err, i, FALSE, -1, 0, NoPa, NoAsk)
            /\ UNCHANGED << d, nparts_cur, changed >>
       ELSE IF i >= BSD_MAXPARTITIONS
       THEN /\ last' = Last("link", -EINVAL, i, FALSE, -1, 0, NoPa, NoAsk)
            /\ UNCHANGED << d, nparts_cur, changed >>
       ELSE /\ d' = [ d EXCEPT
                       !.d_partitions[i] =
                           [ @ EXCEPT
                               !.p_size = cxt.parent[k].size,
                               !.p_offset = cxt.parent[k].start,
                               !.p_fstype = bsd_translate_fstype(cxt.parent[k].sys_ind) ],
                       !.d_npartitions = IF i >= @ THEN i + 1 ELSE @ ]
            /\ nparts_cur' = d'.d_npartitions
            /\ changed' = TRUE
            /\ last' = Last("link", 0, i, FALSE, -1, 0, NoPa, NoAsk)
    /\ nops' = nops + 1
    /\ UNCHANGED << cxt, bsdbuffer, dos_part, dev, nparts_max, have, crashed >>

----------------------------------------------------------------------------
(* edit                                                                    *)

\* what a prompt of fdisk_bsd_edit_disklabel gives: << >> when it fails, << v >>
\* when it returns v
Failed == << >>

\* ask_uint32 and ask_uint16: the answer, or dflt when the prompt fails
AskOr(answer, dflt) == IF answer = Failed THEN dflt ELSE answer[1]

\* the answers to the prompts of one call.  secpercyl is "low" or "high" (the
\* prompt offers 1 .. d_nsectors * d_ntracks) or "cancel".
EditAnswers ==
    [ secsize : { Failed, << U32(1024) >> },
      nsectors : { Failed },
      ntracks : { Failed },
      ncylinders : { Failed },
      secpercyl : AskAnswers,
      rpm : { Failed, << 7200 >> },
      interleave : { Failed },
      trackskew : { Failed },
      cylskew : { Failed },
      headswitch : { Failed },
      trkseek : { Failed } ]

\* the label fdisk_bsd_edit_disklabel leaves
bsd_edit_disklabel(platform, lp, e) ==
    LET g == IF platform = "ia64"
             THEN [ lp EXCEPT !.d_secsize = AskOr(e.secsize, @),
                              !.d_nsectors = AskOr(e.nsectors, @),
                              !.d_ntracks = AskOr(e.ntracks, @),
                              !.d_ncylinders = AskOr(e.ncylinders, @) ]
             ELSE lp
        high == Mul32(g.d_nsectors, g.d_ntracks)
        spc == IF e.secpercyl = "cancel" \/ Lt32(high, One32) THEN g.d_secpercyl
               ELSE AskPick(e.secpercyl, One32, high)
    IN  [ g EXCEPT !.d_secpercyl = spc,
                   !.d_rpm = AskOr(e.rpm, @),
                   !.d_interleave = AskOr(e.interleave, @),
                   !.d_trackskew = AskOr(e.trackskew, @),
                   !.d_cylskew = AskOr(e.cylskew, @),
                   !.d_headswitch = AskOr(e.headswitch, @),
                   !.d_trkseek = AskOr(e.trkseek, @),
                   !.d_secperunit = Mul32(spc, g.d_ncylinders) ]

\* fdisk_bsd_edit_disklabel
EditDisklabel(e) ==
    /\ Ready
    /\ have
    /\ d' = bsd_edit_disklabel(cxt.platform, d, e)
    /\ last' = Last("edit", 0, 0, FALSE, -1, 0, NoPa, NoAsk)
    /\ nops' = nops + 1
    /\ UNCHANGED << cxt, bsdbuffer, dos_part, dev, changed, nparts_cur,
                    nparts_max, have, crashed >>

----------------------------------------------------------------------------
(* write                                                                   *)

\* the xor of the 16 bit words of d_partitions[16] .. d_partitions[n - 1],
\* which are bytes of bsdbuffer (buf)
OverXor(buf, n) ==
    IF n <= BSD_MAXPARTITIONS THEN 0
    ELSE IF n = BSD_MAXPARTITIONS + 1 THEN PartXor(buf.pre[BSD_MAXPARTITIONS])
    ELSE Xor16(PartXor(buf.pre[BSD_MAXPARTITIONS]), PartXor(buf.pre[BSD_MAXPARTITIONS + 1]))

\* d_checksum = 0; d_checksum = bsd_dkcksum(d).  The memory after the label is
\* bsdbuffer.
SetChecksum(lp, buf) ==
    [ lp EXCEPT !.d_checksum =
        bsd_dkcksum([ lp EXCEPT !.d_checksum = 0 ], OverXor(buf, lp.d_npartitions)) ]

\* memmove(&l->bsdbuffer[BSD_LABELSECTOR * DEFAULT_SECTOR_SIZE + BSD_LABELOFFSET],
\*         d, sizeof(*d))
PutLabel(buf, lp) == [ buf EXCEPT !.lab = lp ]

WriteOutcomes == { "ok", "seekfail", "writefail" }

\* bsd_write_disklabel
WriteDisklabel(io, err) ==
    /\ Ready
    /\ have
    /\ LET off == LabelDevOffset(cxt, dos_part)
           d1 == SetChecksum(d, bsdbuffer)
           buf1 == PutLabel(bsdbuffer, d1)
       IN  /\ d' = d1
           /\ bsdbuffer' = buf1
           /\ IF io = "ok"
              THEN /\ dev' = [ dev EXCEPT ![off] = buf1 ]
                   /\ last' = Last("write", 0, 0, FALSE, off, BSD_BBSIZE, NoPa, NoAsk)
              ELSE /\ dev' = dev
                   /\ last' = Last("write", err, 0, FALSE,
                                   IF io = "seekfail" THEN -1 ELSE off,
                                   IF io = "seekfail" THEN 0 ELSE BSD_BBSIZE, NoPa, NoAsk)
    /\ nops' = nops + 1
    /\ UNCHANGED << cxt, dos_part, changed, nparts_cur, nparts_max, have, crashed >>

----------------------------------------------------------------------------
(* write bootstrap                                                         *)

\* the slot whose bytes start where the 404 bytes at
\* &bsdbuffer[BSD_LABELSECTOR * DEFAULT_SECTOR_SIZE] end, when the label starts
\* BSD_LABELOFFSET bytes after them: (404 - 64 - 148) / 16
SplitSlot(platform) == (LabelBytes - BSD_LABELOFFSET(platform) - 148) \div 16

\* the label bytes of a up to slot SplitSlot, those of b from it on
Spliced(platform, a, b) ==
    [ a EXCEPT !.d_partitions =
        [ j \in Slots |-> IF j < SplitSlot(platform) THEN a.d_partitions[j]
                          ELSE b.d_partitions[j] ] ]

\* dp = &l->bsdbuffer[BSD_LABELSECTOR * DEFAULT_SECTOR_SIZE]: the sizeof(struct
\* bsd_disklabel) bytes at dp, as the part of an Image they are.  On i386 they
\* are the label region.  On ia64 they are bytes 0 .. 403: the bytes before the
\* label and the label's bytes up to slot SplitSlot.
RegionAtDp(platform, buf) ==
    IF BSD_LABELOFFSET(platform) = 0
    THEN [ pre |-> BlockHead(0), lab |-> buf.lab ]
    ELSE [ pre |-> buf.pre, lab |-> Spliced(platform, buf.lab, ZeroLabel) ]

\* memmove(dp, &dl, ...) and memset(dp, 0, ...) : buf with the bytes at dp set
\* to those of region r
PutAtDp(platform, buf, r) ==
    IF BSD_LABELOFFSET(platform) = 0
    THEN [ buf EXCEPT !.lab = r.lab ]
    ELSE [ buf EXCEPT !.pre = r.pre, !.lab = Spliced(platform, r.lab, buf.lab) ]

ZeroRegion == [ pre |-> BlockHead(0), lab |-> ZeroLabel ]

\* bsd_get_bootstrap of <name>boot into bsdbuffer[0 .. secsize)
LoadFirst(platform, buf, name, secsize) ==
    LET f == BootFiles(name)
        le == LabelStart(platform) + LabelBytes
    IN  [ pre |-> f.pre,
          lab |-> IF le <= secsize THEN f.first_lab ELSE buf.lab,
          post |-> IF le + 2 <= secsize THEN f.post ELSE buf.post ]

\* bsd_get_bootstrap of boot<name> into bsdbuffer[secsize .. bbsize)
LoadSecond(platform, buf, name, secsize) ==
    LET f == BootFiles(name)
        le == LabelStart(platform) + LabelBytes
    IN  [ pre |-> buf.pre,
          lab |-> IF secsize <= LabelStart(platform) THEN f.second_lab ELSE buf.lab,
          post |-> IF secsize <= le THEN f.post ELSE buf.post ]

\* the sector sizes and boot block sizes of a label the two loads are
\* modelled for: each file covers the label region wholly or not at all, and
\* the second ends where the buffer ends
BootstrapModelled(platform, lp) ==
    /\ lp.d_secsize \in { U32(64), U32(512), U32(1024) }
    /\ lp.d_bbsize = U32(BSD_BBSIZE)

BootstrapAnswers == { "", "ov", "no" }

\* fdisk_bsd_write_bootstrap.  a: "ok" or "cancel" for fdisk_ask_string; res:
\* the string it returns; io: what the device does; err: what the failing
\* prompt returns, or -errno of the failing lseek or write.  When the prompt
\* fails the code frees the pointer res it never set: the process dies, or
\* free finds a null pointer there and the call returns err.
WriteBootstrap(a, res, io, err) ==
    /\ Ready
    /\ have
    /\ BootstrapModelled(cxt.platform, d)
    /\ LET name == IF res # "" THEN res
                   ELSE IF d.d_type = BSD_DTYPE_SCSI THEN "sd" ELSE "wd"
           secsize == ToInt(d.d_secsize)
           b1 == LoadFirst(cxt.platform, bsdbuffer, name, secsize)
           dl == RegionAtDp(cxt.platform, b1)
           b2 == PutAtDp(cxt.platform, b1, ZeroRegion)
           b3 == LoadSecond(cxt.platform, b2, name, secsize)
           b4 == PutAtDp(cxt.platform, b3, dl)
           off == BootstrapDevOffset(cxt, dos_part)
       IN  IF a = "cancel"
           THEN /\ last' = Last("bootstrap", err, 0, FALSE, -1, 0, NoPa, NoAsk)
                /\ crashed' \in BOOLEAN
                /\ UNCHANGED << bsdbuffer, dev >>
           ELSE IF name \notin BootNames
           THEN /\ last' = Last("bootstrap", -2, 0, FALSE, -1, 0, NoPa, NoAsk)
                /\ UNCHANGED << bsdbuffer, dev, crashed >>
           ELSE IF RegionAtDp(cxt.platform, b3) # ZeroRegion
           THEN /\ bsdbuffer' = b3
                /\ last' = Last("bootstrap", -EINVAL, 0, FALSE, -1, 0, NoPa, NoAsk)
                /\ UNCHANGED << dev, crashed >>
           ELSE IF io # "ok"
           THEN /\ bsdbuffer' = b4
                /\ last' = Last("bootstrap", err, 0, FALSE,
                                IF io = "seekfail" THEN -1 ELSE off,
                                IF io = "seekfail" THEN 0 ELSE BSD_BBSIZE, NoPa, NoAsk)
                /\ UNCHANGED << dev, crashed >>
           ELSE /\ bsdbuffer' = b4
                /\ dev' = [ dev EXCEPT ![off] = b4 ]
                /\ last' = Last("bootstrap", 0, 0, FALSE, off, BSD_BBSIZE, NoPa, NoAsk)
                /\ UNCHANGED crashed
    /\ nops' = nops + 1
    /\ UNCHANGED << cxt, d, dos_part, changed, nparts_cur, nparts_max, have >>

----------------------------------------------------------------------------
(* The inputs of the operations, and the specification                     *)

AddSlots == { 4, 16 }
DeleteSlots == { 2, 4, 16, 17 }
GetSlots == { 4, 16 }
TypeSlots == { 1, 4, 16 }
TypeCodes == { 7, 256 }
LinkParents == { 1, 2 }
LinkSlots == { 3, 16 }

Next ==
    \/ \E io \in ReadOutcomes :
         \E err \in IF io = "short" THEN ReadErrors ELSE IoErrors : Probe(io, err)
    \/ \E answer \in { "yes", "no", "cancel" }, err \in AskErrors :
         \E geom \in IF answer = "yes" THEN Geometries ELSE { Geom(Zero32, Zero32, Zero32) } :
           Create(answer, err, geom)
    \/ \E i \in AddSlots, cyl \in BOOLEAN, err \in AskErrors :
         \E a1 \in IF i >= BSD_MAXPARTITIONS THEN { "cancel" } ELSE AskAnswers :
           \E a2 \in IF a1 = "cancel" THEN { "cancel" } ELSE AskAnswers :
             AddPart(i, cyl, a1, a2, err)
    \/ \E partnum \in DeleteSlots : DeletePart(partnum)
    \/ \E n \in GetSlots, cyl \in BOOLEAN : GetPartition(n, cyl)
    \/ \E partnum \in TypeSlots, type \in TypeCodes : SetPartType(partnum, type)
    \/ \E a \in { "ok", "cancel" }, err \in AskErrors :
         \E k \in IF a = "cancel" THEN { 1 } ELSE LinkParents, i \in LinkSlots :
           LinkPartition(k, i, a, err)
    \/ \E e \in EditAnswers : EditDisklabel(e)
    \/ \E io \in WriteOutcomes, err \in IoErrors : WriteDisklabel(io, err)
    \/ \E a \in { "ok", "cancel" } :
         \E res \in IF a = "cancel" THEN { "" } ELSE BootstrapAnswers,
            io \in IF a = "cancel" THEN { "ok" } ELSE WriteOutcomes,
            err \in IF a = "cancel" THEN AskErrors ELSE IoErrors :
           WriteBootstrap(a, res, io, err)

Spec == Init /\ [][Next]_vars

----------------------------------------------------------------------------
(* Properties                                                              *)

\* a write that returned 0
WriteDone == have /\ last.op = "write" /\ last.rc = 0

\* C1: round trip.  After a successful write, bsd_readlabel of the same
\* device with the same nesting succeeds and leaves an in-memory label equal
\* to the one the write left: every header field, the checksum, d_npartitions
\* and all the BSD_MAXPARTITIONS slots.
C1_RoundTrip ==
    WriteDone =>
        LET r == bsd_readlabel(cxt, dos_part, bsdbuffer, d, "ok", 0)
        IN  r.rc = 0 /\ r.d = d

\* C2: after a successful write the xor of the 16 bit words of the serialized
\* label, from its start up to (excluding) d_partitions[d_npartitions], is 0:
\* the words of the device block written, the word that follows the label
\* region included when the range reaches it.
C2_ChecksumZero ==
    WriteDone =>
        bsd_dkcksum(dev[last.off].lab, dev[last.off].post) = 0

\* C3: with a label in memory, d_npartitions and the count reported to the
\* framework are at most BSD_MAXPARTITIONS.
C3_CountWithinMax ==
    have => d.d_npartitions <= BSD_MAXPARTITIONS /\ nparts_cur <= BSD_MAXPARTITIONS

\* offset and size lie in [low, high] as integers: low <= offset and
\* offset + size - 1 <= high
InsideWindow(low, high, offset, size) ==
    /\ Le32(low, offset)
    /\ IF IsZero32(size)
       THEN Le32(offset, high) \/ (high # Max32 /\ offset = Add32(high, One32))
       ELSE Le32(offset, high) /\ Le32(Sub32(size, One32), Sub32(high, offset))

\* C4: the slot a successful add stores lies inside the window, in sector mode
\* and in cylinder mode: [dos_start, dos_start + dos_size - 1] for a nested
\* label, [0, d_secperunit - 1] otherwise (empty when d_secperunit is 0).
C4_AddInsideWindow ==
    [][ (last'.op = "add" /\ last'.rc = 0 /\ ~crashed') =>
          LET p == d'.d_partitions[last'.n]
          IN  IF dos_part # 0
              THEN LET start == cxt.parent[dos_part].start
                       size == cxt.parent[dos_part].size
                   IN  InsideWindow(start, Sub32(Add32(start, size), One32),
                                    p.p_offset, p.p_size)
              ELSE /\ ~IsZero32(d.d_secperunit)
                   /\ InsideWindow(Zero32, Sub32(d.d_secperunit, One32),
                                   p.p_offset, p.p_size) ]_vars

\* the greatest j + 1 with a slot j in use, 0 when no slot is
GreatestLive(lp) ==
    LET live == { j \in Slots : ~IsZero32(lp.d_partitions[j].p_size) }
    IN  IF live = { } THEN 0
        ELSE 1 + CHOOSE j \in live : \A t \in live : t <= j

\* C5: delete(k) with k = d_npartitions - 1 clears slot k and leaves
\* d_npartitions the greatest j + 1 with slot j in use, 0 when no slot is;
\* delete(k) with k < d_npartitions - 1 clears slot k and leaves d_npartitions
\* as it was.
C5_DeleteShrinks ==
    [][ \A k \in DeleteSlots :
          DeletePart(k) =>
              LET q == PartAt(d', bsdbuffer', k)
              IN  /\ k <= d.d_npartitions - 1 =>
                        /\ IsZero32(q.p_size) /\ IsZero32(q.p_offset)
                        /\ q.p_fstype = BSD_FS_UNUSED
                  /\ k = d.d_npartitions - 1 =>
                        /\ d'.d_npartitions = GreatestLive(d')
                        /\ nparts_cur' = d'.d_npartitions
                  /\ k < d.d_npartitions - 1 =>
                        d'.d_npartitions = d.d_npartitions ]_vars

\* C6: a successful write_bootstrap leaves the bytes of the label region of
\* bsdbuffer, and of the device block it wrote, as they were in bsdbuffer
\* before it.
C6_BootstrapKeepsLabel ==
    [][ (last'.op = "bootstrap" /\ last'.rc = 0) =>
          /\ bsdbuffer'.lab = bsdbuffer.lab
          /\ dev'[last'.off].lab = bsdbuffer.lab ]_vars

\* the byte offset of the label: dos_start * cxt->sector_size when a DOS
\* partition is bound, 0 otherwise
BaseOffset ==
    IF dos_part # 0 THEN ToInt(cxt.parent[dos_part].start) * cxt.sector_size ELSE 0

\* C7: write_bootstrap seeks to the byte offset read and write use for the
\* label, whatever the sector size of the device.
C7_BootstrapOffset ==
    (last.op = "bootstrap" /\ last.off # -1) => last.off = BaseOffset

\* C8: a read and a write that succeed transfer BSD_BBSIZE bytes, at
\* dos_start * cxt->sector_size when the label is nested and at 0 when it is
\* not; the partition bound, the parent and the sector size stay as they are
\* while a label is in memory, and a write after a read uses the offset the
\* read used.
C8_LabelTransferOffset ==
    [][ /\ (last'.op \in { "probe", "write" } /\ last'.off # -1) =>
              /\ last'.off = BaseOffset'
              /\ (dos_part' # 0) = HasParent(cxt)
        /\ (last'.op = "write" /\ last'.rc = 0) => last'.len = BSD_BBSIZE
        /\ \A io \in ReadOutcomes, err \in ReadErrors :
              (Probe(io, err) /\ last'.rc = 1) =>
                  /\ last'.len = BSD_BBSIZE
                  /\ read_all(cxt.platform, dev[last'.off], io).ret = BSD_BBSIZE
        /\ have => /\ dos_part' = dos_part
                   /\ cxt'.parent = cxt.parent
                   /\ cxt'.sector_size = cxt.sector_size
        /\ (last.op = "probe" /\ last.off # -1 /\ last'.op = "write" /\ last'.off # -1) =>
              last'.off = last.off ]_vars

\* C9: with a label in memory d_secpercyl is at least 1, and no operation
\* divides by zero.
C9_SecpercylPositive ==
    /\ have => ~IsZero32(d.d_secpercyl)
    /\ ~crashed

\* a * b as integers is below 2^32 (b # 0)
MulFits(a, b) == Div32(Mul32(a, b), b) = a

\* C10: an add in cylinder mode with the entries c1 <= c2 stores offset
\* (c1 - 1) * S and size (c2 - c1 + 1) * S, and a get of the slot in cylinder
\* mode right after it reports start c1 and end c2, neither with a '*'.
C10_CylinderRoundTrip ==
    [][ /\ ( /\ last'.op = "add" /\ last'.rc = 0 /\ last'.cyl /\ ~crashed'
             /\ Le32(One32, last'.ask[1]) /\ Le32(last'.ask[1], last'.ask[2]) ) =>
              LET c1 == last'.ask[1]
                  c2 == last'.ask[2]
                  S == d.d_secpercyl
                  n == Add32(Sub32(c2, c1), One32)
                  p == d'.d_partitions[last'.n]
              IN  /\ MulFits(Sub32(c1, One32), S) /\ MulFits(n, S)
                  /\ p.p_offset = Mul32(Sub32(c1, One32), S)
                  /\ p.p_size = Mul32(n, S)
        /\ ( /\ last.op = "add" /\ last.rc = 0 /\ last.cyl /\ ~crashed
             /\ Le32(One32, last.ask[1]) /\ Le32(last.ask[1], last.ask[2])
             /\ last'.op = "get" /\ last'.cyl /\ last'.n = last.n ) =>
              /\ last'.rc = 0
              /\ last'.pa.used
              /\ last'.pa.start = last.ask[1] /\ last'.pa.start_post = " "
              /\ last'.pa.end = last.ask[2] /\ last'.pa.end_post = " " ]_vars

\* C11: in sector mode a successful add(i), i < BSD_MAXPARTITIONS, with the
\* entries f <= e stores slot i = {offset f, size e - f + 1, BSD_FS_UNUSED},
\* leaves d_npartitions the greater of its old value and i + 1, and a get(i)
\* in sector mode right after it reports used, start f and end e; add(i) with
\* i >= BSD_MAXPARTITIONS returns -EINVAL and changes nothing.
C11_SectorAdd ==
    [][ /\ ( /\ last'.op = "add" /\ last'.rc = 0 /\ ~last'.cyl /\ ~crashed'
             /\ last'.n < BSD_MAXPARTITIONS
             /\ Le32(last'.ask[1], last'.ask[2]) ) =>
              LET f == last'.ask[1]
                  e == last'.ask[2]
                  i == last'.n
                  p == d'.d_partitions[i]
              IN  /\ p.p_offset = f
                  /\ ~(f = Zero32 /\ e = Max32)
                  /\ p.p_size = Add32(Sub32(e, f), One32)
                  /\ p.p_fstype = BSD_FS_UNUSED
                  /\ d'.d_npartitions =
                         IF i + 1 > d.d_npartitions THEN i + 1 ELSE d.d_npartitions
        /\ ( /\ last.op = "add" /\ last.rc = 0 /\ ~last.cyl /\ ~crashed
             /\ last.n < BSD_MAXPARTITIONS
             /\ Le32(last.ask[1], last.ask[2])
             /\ last'.op = "get" /\ ~last'.cyl /\ last'.n = last.n ) =>
              /\ last'.rc = 0
              /\ last'.pa.used
              /\ last'.pa.start = last.ask[1]
              /\ last'.pa.end = last.ask[2]
        /\ (last'.op = "add" /\ last'.n >= BSD_MAXPARTITIONS) =>
              /\ last'.rc = -EINVAL
              /\ d' = d /\ changed' = changed /\ nparts_cur' = nparts_cur ]_vars

\* the boot file fdisk_bsd_write_bootstrap takes for the answer res
BootNameOf(res) ==
    IF res # "" THEN res ELSE IF d.d_type = BSD_DTYPE_SCSI THEN "sd" ELSE "wd"

\* bsdbuffer as the load of the second stage leaves it
AfterSecondStage(res) ==
    LET secsize == ToInt(d.d_secsize)
        b1 == LoadFirst(cxt.platform, bsdbuffer, BootNameOf(res), secsize)
        b2 == PutAtDp(cxt.platform, b1, ZeroRegion)
    IN  LoadSecond(cxt.platform, b2, BootNameOf(res), secsize)

\* the second stage is loaded over the label region and leaves a byte of it
\* that is not zero
SecondStageInLabel(res) ==
    /\ BootNameOf(res) \in BootNames
    /\ ToInt(d.d_secsize) <= LabelStart(cxt.platform)
    /\ AfterSecondStage(res).lab # ZeroLabel

\* C12: a write_bootstrap whose second stage leaves a byte that is not zero in
\* the label region of bsdbuffer returns -EINVAL (the overlap error) and
\* writes nothing: the device is as it was before the call.
C12_OverlapNoWrite ==
    [][ \A res \in BootstrapAnswers, io \in WriteOutcomes, err \in IoErrors :
          (WriteBootstrap("ok", res, io, err) /\ SecondStageInLabel(res)) =>
              /\ last'.rc = -EINVAL
              /\ dev' = dev ]_vars

\* a prompt of this call of fdisk_bsd_edit_disklabel is cancelled
EditCancelled(e) ==
    \/ e.secpercyl = "cancel"
    \/ \E f \in { "rpm", "interleave", "trackskew", "cylskew", "headswitch",
                  "trkseek" } : e[f] = Failed
    \/ /\ cxt.platform = "ia64"
       /\ \E f \in { "secsize", "nsectors", "ntracks", "ncylinders" } : e[f] = Failed

\* the step returns the failure of the prompt and leaves the label state
CancelReturned ==
    /\ last'.rc \in AskErrors
    /\ d' = d /\ have' = have /\ nparts_cur' = nparts_cur /\ changed' = changed

\* C13: a cancelled prompt during add, link, create or edit leaves the label
\* state exactly as it was before the call, and the call returns the failure
\* of the prompt.
C13_CancelLeavesLabel ==
    [][ /\ \A err \in AskErrors :
             Create("cancel", err, Geom(Zero32, Zero32, Zero32)) => CancelReturned
        /\ \A i \in AddSlots, cyl \in BOOLEAN, a1 \in AskAnswers, a2 \in AskAnswers,
              err \in AskErrors :
             ( /\ AddPart(i, cyl, a1, a2, err)
               /\ i < BSD_MAXPARTITIONS /\ ~crashed'
               /\ (a1 = "cancel" \/ a2 = "cancel") ) => CancelReturned
        /\ \A k \in LinkParents, i \in LinkSlots, err \in AskErrors :
             (LinkPartition(k, i, "cancel", err) /\ HasParent(cxt)) => CancelReturned
        /\ \A e \in EditAnswers :
             (EditDisklabel(e) /\ EditCancelled(e)) => CancelReturned ]_vars

\* C14: when the device returns fewer than BSD_BBSIZE bytes, or the seek or
\* the read fails, bsd_readlabel fails and the probe reports that no label was
\* found (it returns 0 and the context has no label), whatever an earlier read
\* left in bsdbuffer.
C14_FailedReadNotFound ==
    [][ \A io \in ReadOutcomes \ { "ok" }, err \in ReadErrors :
          Probe(io, err) => (last'.rc = 0 /\ ~have') ]_vars

\* C15: while a label is there, every slot at or after d_npartitions is zero
\* in all its fields.
C15_TrailingSlotsZero ==
    (have /\ last.op \in { "probe", "add", "delete", "link", "set_type" }) =>
        \A t \in Slots : t >= d.d_npartitions => d.d_partitions[t] = ZeroPart

\* slot p is {offset, size, BSD_FS_UNUSED}
UnusedSpan(p, offset, size) ==
    p.p_offset = offset /\ p.p_size = size /\ p.p_fstype = BSD_FS_UNUSED

\* C16: a successful create leaves a label with d_magic = d_magic2 =
\* BSD_DISKMAGIC and the initial layout.  Nested in a DOS partition:
\* d_npartitions = 4, slot 2 = {start of the DOS partition, its size, UNUSED},
\* slot 3 = {0, d_secperunit, UNUSED}.  Not nested: d_npartitions = 3, slot 2 =
\* {0, d_secperunit, UNUSED}.  Every other slot has size 0.  When the user
\* declines, create returns 1 and the label is unchanged.
C16_CreateLayout ==
    [][ /\ (last'.op = "create" /\ last'.rc = 0) =>
              /\ have'
              /\ d'.d_magic = BSD_DISKMAGIC /\ d'.d_magic2 = BSD_DISKMAGIC
              /\ IF dos_part' # 0
                 THEN /\ HasParent(cxt)
                      /\ d'.d_npartitions = 4
                      /\ UnusedSpan(d'.d_partitions[2], cxt.parent[dos_part'].start,
                                    cxt.parent[dos_part'].size)
                      /\ UnusedSpan(d'.d_partitions[3], Zero32, d'.d_secperunit)
                      /\ \A t \in Slots \ { 2, 3 } : IsZero32(d'.d_partitions[t].p_size)
                 ELSE /\ ~HasParent(cxt)
                      /\ d'.d_npartitions = 3
                      /\ UnusedSpan(d'.d_partitions[2], Zero32, d'.d_secperunit)
                      /\ \A t \in Slots \ { 2 } : IsZero32(d'.d_partitions[t].p_size)
        /\ \A err \in AskErrors :
             Create("no", err, Geom(Zero32, Zero32, Zero32)) =>
                 /\ last'.rc = 1
                 /\ d' = d /\ have' = have /\ nparts_cur' = nparts_cur
                 /\ changed' = changed ]_vars

\* a label was created inside a DOS partition
C16_NestedCreated ==
    /\ last.op = "create" /\ last.rc = 0
    /\ dos_part # 0
    /\ d.d_npartitions = 4
    /\ ~IsZero32(d.d_partitions[2].p_size)
    /\ ~IsZero32(d.d_partitions[3].p_size)

\* C17: after every successful create and after every edit, d_secperunit is
\* the product d_secpercyl * d_ncylinders as integers: the product fits 32
\* bits and is the value stored.
C17_SecperunitProduct ==
    ( /\ have
      /\ \/ last.op = "create" /\ last.rc = 0
         \/ last.op = "edit" ) =>
        /\ d.d_secperunit = Mul32(d.d_secpercyl, d.d_ncylinders)
        /\ IsZero32(d.d_secpercyl) \/ MulFits(d.d_ncylinders, d.d_secpercyl)

\* the BSD type of an MBR system byte: MSDOS for 0x01, 0x04, 0x06, 0xe1, 0xe3
\* and 0xf2, HPFS for 0x07, OTHER for every other byte
LinkedFstype(b) ==
    CASE b = 1 \/ b = 4 \/ b = 6 \/ b = 225 \/ b = 227 \/ b = 242 -> BSD_FS_MSDOS
      [] b = 7 -> BSD_FS_HPFS
      [] OTHER -> BSD_FS_OTHER

\* C18: link(k, i) with i < BSD_MAXPARTITIONS copies start and size of MBR
\* partition k into slot i, sets the slot's type to the translation of the
\* MBR system byte (MSDOS, HPFS or OTHER, for every byte value), raises
\* d_npartitions to the greater of its value and i + 1 and leaves every other
\* slot unchanged; with i >= BSD_MAXPARTITIONS, or without a DOS parent, it
\* returns -EINVAL and changes nothing.
C18_LinkCopies ==
    [][ \A k \in LinkParents, i \in LinkSlots, err \in AskErrors :
          LinkPartition(k, i, "ok", err) =>
              IF HasParent(cxt) /\ i < BSD_MAXPARTITIONS
              THEN /\ last'.rc = 0
                   /\ d'.d_partitions[i].p_offset = cxt.parent[k].start
                   /\ d'.d_partitions[i].p_size = cxt.parent[k].size
                   /\ d'.d_partitions[i].p_fstype = LinkedFstype(cxt.parent[k].sys_ind)
                   /\ \A b \in 0 .. UINT8_MAX : bsd_translate_fstype(b) = LinkedFstype(b)
                   /\ d'.d_npartitions =
                          IF i + 1 > d.d_npartitions THEN i + 1 ELSE d.d_npartitions
                   /\ \A t \in Slots \ { i } : d'.d_partitions[t] = d.d_partitions[t]
              ELSE /\ last'.rc = -EINVAL
                   /\ d' = d /\ nparts_cur' = nparts_cur /\ changed' = changed ]_vars

\* the MBR partition with system byte 7, start 100 and size 200 was linked
\* into slot 3 of a label that had no slot left, and d_npartitions is 4
C18_LinkedHpfs ==
    /\ last.op = "link" /\ last.rc = 0 /\ last.n = 3
    /\ d.d_partitions[3].p_offset = U32(100)
    /\ d.d_partitions[3].p_size = U32(200)
    /\ d.d_partitions[3].p_fstype = BSD_FS_HPFS
    /\ d.d_npartitions = 4
    /\ IsZero32(d.d_partitions[2].p_size)

\* C19: probe returns 1 (found) or 0 (not found) and nothing else, also when
\* the seek or the read fails.  In a nested context it returns 1 only if the
\* DOS partition it bound has a system byte in {0xa5, 0xb5, 0xa9, 0xb9, 0xa6,
\* 0xb6} and a start sector that is not 0, and the device holds, at the first
\* sector of that partition, a label with d_magic = d_magic2 = BSD_DISKMAGIC.
C19_ProbeFoundOnly ==
    last.op = "probe" =>
        /\ last.rc \in { 0, 1 }
        /\ (HasParent(cxt) /\ last.rc = 1) =>
              /\ dos_part # 0
              /\ cxt.parent[dos_part].sys_ind \in { 165, 181, 169, 185, 166, 182 }
              /\ ~IsZero32(cxt.parent[dos_part].start)
              /\ LET lab == dev[ToInt(cxt.parent[dos_part].start) * cxt.sector_size].lab
                 IN  lab.d_magic = BSD_DISKMAGIC /\ lab.d_magic2 = BSD_DISKMAGIC

\* a probe in a nested context found a label
C19_NestedFound ==
    /\ last.op = "probe"
    /\ last.rc = 1
    /\ HasParent(cxt)
    /\ have
    /\ cxt.dev_path = fdisk_partname(dos_part)

\* C20: set_type(index, fstype) returns -EINVAL and changes nothing when
\* index >= d_npartitions or fstype > 255; when fstype is the type the slot
\* has it returns 0, changes nothing and does not mark the label changed;
\* otherwise it stores fstype in the slot and marks the label changed, and
\* d_npartitions, every other slot and every other field of the slot are as
\* before.  No byte outside the label is written: bsdbuffer is as before, also
\* for an index below d_npartitions that is no slot of the table.
C20_SetTypeFrame ==
    [][ \A partnum \in TypeSlots, type \in TypeCodes :
          SetPartType(partnum, type) =>
              IF partnum >= d.d_npartitions \/ type > 255
              THEN /\ last'.rc = -EINVAL
                   /\ d' = d /\ bsdbuffer' = bsdbuffer /\ changed' = changed
              ELSE IF partnum \notin Slots
              THEN /\ last'.rc = 0
                   /\ d' = d /\ bsdbuffer' = bsdbuffer
              ELSE LET p == d.d_partitions[partnum]
                       q == d'.d_partitions[partnum]
                   IN  IF type = p.p_fstype
                       THEN /\ last'.rc = 0
                            /\ d' = d /\ bsdbuffer' = bsdbuffer /\ changed' = changed
                       ELSE /\ last'.rc = 0
                            /\ q.p_fstype = type
                            /\ changed'
                            /\ [ q EXCEPT !.p_fstype = p.p_fstype ] = p
                            /\ \A t \in Slots \ { partnum } :
                                 d'.d_partitions[t] = d.d_partitions[t]
                            /\ [ d' EXCEPT !.d_partitions = d.d_partitions ] = d
                            /\ bsdbuffer' = bsdbuffer
                            /\ nparts_cur' = nparts_cur ]_vars

\* C21: every add, delete, link, set_type and edit that changes a field of the
\* in-memory label leaves the label marked changed.
C21_ChangeMarked ==
    [][ ( /\ last'.op \in { "add", "delete", "link", "set_type", "edit" }
          /\ d' # d ) => changed' ]_vars

\* the bytes of a boot block outside the label region
OutsideLabel(img) == << img.pre, img.post >>

\* C22: a write changes no byte of the boot block outside the label region.
\* A successful read fills bsdbuffer with the block of the device; add,
\* delete, link, set_type and edit leave the bytes of bsdbuffer outside the
\* label region as they are; a successful write leaves them as they are and
\* puts them on the device: so the device bytes outside the label region are
\* the bytes that were read.
C22_WriteKeepsBlock ==
    [][ /\ \A err \in IoErrors :
             (Probe("ok", err) /\ last'.rc = 1) =>
                 OutsideLabel(bsdbuffer') = OutsideLabel(dev[last'.off])
        /\ last'.op \in { "add", "delete", "link", "set_type", "edit" } =>
             OutsideLabel(bsdbuffer') = OutsideLabel(bsdbuffer)
        /\ (last'.op = "write" /\ last'.rc = 0) =>
             /\ OutsideLabel(bsdbuffer') = OutsideLabel(bsdbuffer)
             /\ OutsideLabel(dev'[last'.off]) = OutsideLabel(bsdbuffer) ]_vars

\* C23: no operation reads or writes a slot whose index is outside
\* 0 .. BSD_MAXPARTITIONS - 1: delete touches the slot it is given and the
\* slots its loop inspects, get and set_type the slot they are given, and the
\* checksum of a write the slots below d_npartitions.
C23_SlotsInside ==
    [][ /\ \A partnum \in DeleteSlots :
             DeletePart(partnum) =>
                 IF partnum >= BSD_MAXPARTITIONS
                 THEN d' = d /\ bsdbuffer' = bsdbuffer
                 ELSE DeleteTouched(d, bsdbuffer, partnum) \subseteq Slots
        /\ (last'.op \in { "get", "set_type" } /\ last'.rc = 0) => last'.n \in Slots
        /\ last'.op = "write" => d.d_npartitions <= BSD_MAXPARTITIONS ]_vars

====
